---- MODULE Spec2Model ----
(***************************************************************************)
(* Alert, case and rule handling of the anti-fraud transaction monitoring *)
(* backend: the alerts routes (create, update), the cases routes (create   *)
(* with alerts, add alert to case), the rules routes (create, update,      *)
(* delete, test) and the tables they read and write; the bulk import of    *)
(* transactions, the rate limiter, the register and login routes, the SAR  *)
(* routes (create, submit) and the client's AuthProvider.                  *)
(*                                                                         *)
(* Nullable columns and optional request fields are sets with at most one  *)
(* element: {} is NULL / absent, {v} is the value v.                       *)
(***************************************************************************)
EXTENDS Integers, Sequences, FiniteSets, Bags, TLC

(* ------------------------------ bounds --------------------------------- *)

\* most rows the alerts table holds while alerts are created and updated
MaxAlerts == 2

\* most rows the alerts table holds while cases are created and linked
MaxLinkable == 1

\* most rows the cases table holds
MaxCases == 1

\* most values the sequence of detection_rules.id gives out while rules are
\* tested (two are seeded)
MaxRules == 3

\* most values the sequence of detection_rules.id gives out while the
\* catalog is maintained (two are seeded)
MaxCatalog == 4

(* ------------------------- schema and fixtures ------------------------- *)

\* alerts.status CHECK constraint
Statuses == {"new", "investigating", "escalated", "closed", "false_positive"}

\* alerts.severity CHECK constraint
Severities == {"low", "medium", "high", "critical"}

\* alerts.alert_type CHECK constraint
AlertTypes == {"rule_based", "ml_anomaly", "manual"}

\* users.role of the seeded users: 1 an analyst, 2 a supervisor, 3 a viewer,
\* 4 the admin
users == [u \in 1..4 |-> CASE u = 1 -> "analyst" [] u = 2 -> "supervisor"
                           [] u = 3 -> "viewer" [] OTHER -> "admin"]

\* ids of the rows of the transactions table
transactions == {1, 2}

\* authorize(allowedRoles): the request passes when the user's role is allowed
authorize(allowedRoles, user) == users[user] \in allowedRoles

\* the roles the alert and case routes allow
AnalystPlus == {"analyst", "supervisor", "admin"}

VARIABLES
    detection_rules,  \* detection_rules table: rule id -> row
    detection_rules_id_seq, \* the SERIAL sequence of detection_rules.id: last value
    transaction_rows, \* transactions table: transaction id -> row
    alerts,           \* alerts table: sequence of rows, alerts[i] has id i
    cases,            \* cases table: sequence of rows, cases[i] has id i
    case_alerts,      \* case_alerts table: bag of [case_id, alert_id] rows
    inflight,         \* requests between two awaits: slot -> request
    resp,             \* the last response sent: [op, code]
    transaction_ids,  \* transactions table: the transaction_id column
    user_rows,        \* users table: sequence of rows, user_rows[i] has id i
    sars,             \* suspicious_activity_reports table: sequence of rows
    server_time,      \* the server's clock, Date.now() and CURRENT_TIMESTAMP
    store,            \* the rate limiter's Map: key -> timestamps recorded
    passed,           \* the requests the rate limiter passed on: key -> times
    auth,             \* the client's AuthProvider state: [user, token]
    localStorage,     \* the client's stored token ('af-tms-token')
    timeouts,         \* the client's pending setTimeout callbacks
    clock,            \* the client's clock
    logins            \* the number of logins the client has completed

\* the rule, alert and case tables
core == <<detection_rules, detection_rules_id_seq, transaction_rows, alerts, cases, case_alerts>>

\* the rate limiter's state
limiterVars == <<store, passed>>

\* the client's state
clientVars == <<auth, localStorage, timeouts, clock, logins>>

\* the state the rule, alert and case handlers neither read nor write
aside == <<transaction_ids, user_rows, sars, server_time, limiterVars, clientVars>>

vars == <<detection_rules, detection_rules_id_seq, transaction_rows,
          alerts, cases, case_alerts, inflight, resp, aside>>

\* the tables the alert and case handlers only read
catalog == <<detection_rules, detection_rules_id_seq, transaction_rows>>

\* the keys of a rule's conditions object (ruleSchema.conditions); a key
\* that is absent holds {}, a key that is present holds {its value}; an
\* array is the set of its items
NoConditions ==
    [ minAmount         |-> {}, maxAmount      |-> {}, currency |-> {},
      transactionCount  |-> {}, timeWindow     |-> {},
      transactionTypes  |-> {}, channels       |-> {}, roundAmounts |-> {},
      blockedCountries  |-> {},
      velocityThreshold |-> {}, velocityWindow |-> {} ]

\* the conditions object with the given keys set
Conditions(set) == [ k \in DOMAIN NoConditions |-> IF k \in DOMAIN set THEN set[k] ELSE {} ]

\* amounts are DECIMAL(15,2): an amount is held as its number of cents
Dollars(n) == n * 100

\* the rules seedDefaultRules inserts first: id 1 'Large Cash Transaction',
\* id 2 'High Frequency Wire Transfers'
SeededRules ==
    (1 :> [ name |-> "Large Cash Transaction - NZD 10,000+",
            rule_type |-> "amount", severity |-> "high", is_active |-> TRUE,
            conditions |-> Conditions([ minAmount |-> {Dollars(10000)},
                                        currency |-> {"NZD"},
                                        transactionTypes |-> {{"deposit", "withdrawal"}} ]) ])
    @@
    (2 :> [ name |-> "High Frequency Wire Transfers",
            rule_type |-> "frequency", severity |-> "medium", is_active |-> TRUE,
            conditions |-> Conditions([ transactionCount |-> {5},
                                        timeWindow |-> {"24h"},
                                        channels |-> {{"wire"}} ]) ])

\* a row of the transactions table: the columns the rule test reads;
\* processed_at is a number of hours, location_country is nullable
Transaction(account, amount, currency, type, channel, country, processedAt) ==
    [ from_account_id  |-> account,
      amount           |-> amount,
      currency         |-> currency,
      transaction_type |-> type,
      channel          |-> channel,
      location_country |-> country,
      processed_at     |-> processedAt ]

\* the transactions present while alerts and cases are handled
SampleTransactions ==
    (1 :> Transaction(1, Dollars(15000), "NZD", "deposit", "branch", {"NZ"}, 30))
    @@
    (2 :> Transaction(1, Dollars(500), "NZD", "transfer", "wire", {"NZ"}, 31))

\* request slots of the interleaved specification
Slots == {1, 2}

Idle == [op |-> "idle"]

\* a row of the users table: the columns login and registration read or
\* write; password stands for the password that password_hash was made of
UserRow(username, email, role, isActive, password) ==
    [ username |-> username, email |-> email, role |-> role,
      is_active |-> isActive, password |-> password ]

\* the seeded users as rows of the users table, by id
SeededUsers ==
    [ u \in 1..4 |-> UserRow(users[u], users[u] \o "@af-tms.nz", users[u], TRUE, users[u] \o "123") ]

\* the client keys (req.ip) that send requests
Keys == {"ip1", "ip2"}

\* transactions.transaction_id of the sample transactions
SampleTransactionIds == {"T1", "T2"}

\* the state beside the rules, alerts, cases and users before any request
RestInit ==
    /\ transaction_ids = SampleTransactionIds
    /\ sars = <<>>
    /\ server_time = 0
    /\ store = <<>>
    /\ passed = [k \in Keys |-> <<>>]
    /\ auth = [user |-> {}, token |-> {}]
    /\ localStorage = {}
    /\ timeouts = {}
    /\ clock = 0
    /\ logins = 0

\* the state beside the rules, alerts and cases, the default users seeded
AsideInit == user_rows = SeededUsers /\ RestInit

\* tables as createTables leaves them, the default rules seeded; no request
Init ==
    /\ detection_rules = SeededRules
    /\ detection_rules_id_seq = 2
    /\ transaction_rows = SampleTransactions
    /\ alerts = <<>>
    /\ cases = <<>>
    /\ case_alerts = EmptyBag
    /\ inflight = [s \in Slots |-> Idle]
    /\ resp = [op |-> "none", code |-> 0]
    /\ AsideInit

AlertIds == 1..Len(alerts)

CaseIds == 1..Len(cases)

Reply(op, code) == [op |-> op, code |-> code]

\* errorHandler: the status answered for an error a handler throws, by the
\* error's code: unique violation, foreign key violation, anything else
ErrorStatus(code) ==
    CASE code = "23505" -> 409
      [] code = "23503" -> 400
      [] OTHER -> 500

(* ----------------------- POST /api/alerts ------------------------------ *)

\* the row INSERT INTO alerts stores: status takes the column default 'new',
\* assigned_to is the creator (alert_id, customer_id and details are columns
\* no handler here reads again)
NewAlert(user, transactionId, alertType, severity, ruleId) ==
    [ transaction_id |-> transactionId,
      rule_id        |-> ruleId,
      alert_type     |-> alertType,
      severity       |-> severity,
      status         |-> "new",
      assigned_to    |-> {user} ]

\* rule_id REFERENCES detection_rules(id): NULL or an existing rule
RuleFkOk(ruleId) == ruleId \subseteq DOMAIN detection_rules

\* the whole create-alert handler
CreateAlert(user, transactionId, alertType, severity, ruleId) ==
    /\ UNCHANGED <<aside, catalog, cases, case_alerts, inflight>>
    /\ IF ~authorize(AnalystPlus, user) THEN
            /\ resp' = Reply("createAlert", 403)
            /\ UNCHANGED alerts
       ELSE IF transactionId \notin transactions THEN
            /\ resp' = Reply("createAlert", 404)
            /\ UNCHANGED alerts
       ELSE IF ~RuleFkOk(ruleId) THEN
            /\ resp' = Reply("createAlert", ErrorStatus("23503"))
            /\ UNCHANGED alerts
       ELSE
            /\ alerts' = Append(alerts, NewAlert(user, transactionId, alertType, severity, ruleId))
            /\ resp' = Reply("createAlert", 201)

\* create-alert request bodies that pass createAlertSchema
AlertInputs ==
    { [transactionId |-> 1, alertType |-> "rule_based", severity |-> "high",   ruleId |-> {1}],
      [transactionId |-> 1, alertType |-> "rule_based", severity |-> "low",    ruleId |-> {1}],
      [transactionId |-> 2, alertType |-> "rule_based", severity |-> "medium", ruleId |-> {2}],
      [transactionId |-> 1, alertType |-> "manual",     severity |-> "low",    ruleId |-> {}],
      [transactionId |-> 3, alertType |-> "manual",     severity |-> "low",    ruleId |-> {}],
      [transactionId |-> 1, alertType |-> "rule_based", severity |-> "low",    ruleId |-> {3}] }

(* ----------------------- PUT /api/alerts/:id --------------------------- *)

\* the analyst check of the update handler: an analyst is refused an alert
\* that is assigned to somebody else
AlertAccessDenied(user, assigned_to) ==
    users[user] = "analyst" /\ assigned_to # {} /\ assigned_to # {user}

\* UPDATE alerts SET <every key of the body> WHERE id = alertId, on one row
ApplyUpdate(row, value) ==
    [row EXCEPT !.status      = IF "status" \in value.keys THEN value.status ELSE @,
                !.assigned_to = IF "assignedTo" \in value.keys THEN value.assignedTo ELSE @]

\* assigned_to REFERENCES users(id)
UserFkOk(value) == ("assignedTo" \in value.keys) => (value.assignedTo \subseteq DOMAIN users)

\* the whole update-alert handler; value is the validated body, value.keys
\* its Object.keys
UpdateAlert(user, alertId, value) ==
    /\ UNCHANGED <<aside, catalog, cases, case_alerts, inflight>>
    /\ IF ~authorize(AnalystPlus, user) THEN
            /\ resp' = Reply("updateAlert", 403)
            /\ UNCHANGED alerts
       ELSE IF alertId \notin AlertIds THEN
            /\ resp' = Reply("updateAlert", 404)
            /\ UNCHANGED alerts
       ELSE IF AlertAccessDenied(user, alerts[alertId].assigned_to) THEN
            /\ resp' = Reply("updateAlert", 403)
            /\ UNCHANGED alerts
       ELSE IF value.keys = {} THEN
            /\ resp' = Reply("updateAlert", 400)
            /\ UNCHANGED alerts
       ELSE IF ~UserFkOk(value) THEN
            /\ resp' = Reply("updateAlert", ErrorStatus("23503"))
            /\ UNCHANGED alerts
       ELSE
            /\ alerts' = [alerts EXCEPT ![alertId] = ApplyUpdate(@, value)]
            /\ resp' = Reply("updateAlert", 200)

\* update-alert request bodies that pass updateAlertSchema: a status, or
\* nothing at all (notes and resolution are keys of the schema and no
\* columns of the table)
StatusUpdates ==
    { [keys |-> {"status"}, status |-> s, assignedTo |-> {}] : s \in Statuses }
    \cup { [keys |-> {}, status |-> "new", assignedTo |-> {}] }

\* update-alert request bodies that pass updateAlertSchema: an assignee
\* (null, the analyst, a user id of no user)
AssignUpdates ==
    { [keys |-> {"assignedTo"}, status |-> "new", assignedTo |-> a] : a \in {{}, {1}, {5}} }

(* ------------------- case_alerts and the status advance ---------------- *)

CaseAlertRow(caseId, alertId) == [case_id |-> caseId, alert_id |-> alertId]

\* case_alerts without its UNIQUE(case_id, alert_id) constraint
UniqueViolationDropped(ca, caseId, alertId) == FALSE

\* UNIQUE(case_id, alert_id): the INSERT fails with 23505 when the pair is
\* already a row
UniqueViolation(ca, caseId, alertId) == BagIn(CaseAlertRow(caseId, alertId), ca)

\* INSERT INTO case_alerts (case_id, alert_id)
InsertCaseAlert(ca, caseId, alertId) == ca (+) SetToBag({CaseAlertRow(caseId, alertId)})

\* UPDATE alerts SET status = 'investigating' WHERE id = alertId
AdvanceStatus(al, alertId) ==
    [i \in DOMAIN al |-> IF i = alertId THEN [al[i] EXCEPT !.status = "investigating"] ELSE al[i]]

\* the analyst check of the case routes: assigned to the case or its creator
CaseAccessDenied(user, c) ==
    users[user] = "analyst" /\ c.assigned_to # {user} /\ c.created_by # user

(* -------------------- POST /api/cases/:id/alerts ----------------------- *)

\* the whole add-alert-to-case handler, no query failing
LinkAlert(user, caseId, alertId) ==
    /\ UNCHANGED <<aside, catalog, cases, inflight>>
    /\ IF ~authorize(AnalystPlus, user) THEN
            /\ resp' = Reply("linkAlert", 403)
            /\ UNCHANGED <<alerts, case_alerts>>
       ELSE IF caseId \notin CaseIds THEN
            /\ resp' = Reply("linkAlert", 404)
            /\ UNCHANGED <<alerts, case_alerts>>
       ELSE IF CaseAccessDenied(user, cases[caseId]) THEN
            /\ resp' = Reply("linkAlert", 403)
            /\ UNCHANGED <<alerts, case_alerts>>
       ELSE IF alertId \notin AlertIds THEN
            /\ resp' = Reply("linkAlert", 404)
            /\ UNCHANGED <<alerts, case_alerts>>
       ELSE IF UniqueViolation(case_alerts, caseId, alertId) THEN
            /\ resp' = Reply("linkAlert", 409)
            /\ UNCHANGED <<alerts, case_alerts>>
       ELSE
            /\ case_alerts' = InsertCaseAlert(case_alerts, caseId, alertId)
            /\ alerts' = AdvanceStatus(alerts, alertId)
            /\ resp' = Reply("linkAlert", 200)

(* -------------------------- POST /api/cases ---------------------------- *)

\* the three tables a create-case transaction writes, and the code of the
\* error its failing statement has thrown ("" while none has)
Db(c, ca, al) == [cases |-> c, case_alerts |-> ca, alerts |-> al, err |-> ""]

\* INSERT INTO cases ... RETURNING *
InsertCase(db, user, assignedTo) ==
    [db EXCEPT !.cases = Append(@, [assigned_to |-> assignedTo, created_by |-> user])]

\* the alert association loop: for each id in order, the INSERT into
\* case_alerts (alert_id REFERENCES alerts(id), UNIQUE(case_id, alert_id)),
\* then the status update; the first failing statement throws
RECURSIVE AssociateAlerts(_, _, _)
AssociateAlerts(db, caseId, alertIds) ==
    IF alertIds = <<>> \/ db.err # "" THEN db
    ELSE LET alertId == Head(alertIds) IN
         IF alertId \notin 1..Len(db.alerts) THEN [db EXCEPT !.err = "23503"]
         ELSE IF UniqueViolation(db.case_alerts, caseId, alertId) THEN [db EXCEPT !.err = "23505"]
         ELSE AssociateAlerts(
                [db EXCEPT !.case_alerts = InsertCaseAlert(@, caseId, alertId),
                           !.alerts = AdvanceStatus(@, alertId)],
                caseId, Tail(alertIds))

\* the catch block without its ROLLBACK: what ran before the failure stays
TxOutcomeNoRollback(before, after) == after

\* COMMIT when no statement threw, ROLLBACK in the catch block otherwise
TxOutcome(before, after) == IF after.err = "" THEN after ELSE before

\* the whole create-case handler: one database transaction, its writes
\* visible to the other requests at COMMIT
CreateCase(user, assignedTo, alertIds) ==
    /\ UNCHANGED <<aside, catalog, inflight>>
    /\ IF ~authorize(AnalystPlus, user) THEN
            /\ resp' = Reply("createCase", 403)
            /\ UNCHANGED <<alerts, cases, case_alerts>>
       ELSE
            LET before == Db(cases, case_alerts, alerts)
                caseId == Len(cases) + 1
                after  == AssociateAlerts(InsertCase(before, user, assignedTo), caseId, alertIds)
                out    == TxOutcome(before, after)
            IN  /\ cases' = out.cases
                /\ case_alerts' = out.case_alerts
                /\ alerts' = out.alerts
                /\ resp' = IF after.err = "" THEN Reply("createCase", 201)
                                            ELSE Reply("createCase", ErrorStatus(after.err))

\* the alertIds arrays tried, over the ids 1..n and n + 1, the id of no alert:
\* none, one id, alert 1 and another id, alert 1 twice, the id of no alert
\* after and before alert 1
AlertIdLists(n) ==
    {<<>>} \cup { <<a>> : a \in 1..(n + 1) }
           \cup { <<1, b>> : b \in 1..(n + 1) }
           \cup { <<n + 1, 1>> }

\* the users who send requests: the analyst, the supervisor, the viewer
Actors == DOMAIN users

(* --------------------------- specifications --------------------------- *)

\* alerts are created and updated; no case exists
Next ==
    \/ \E u \in Actors, b \in AlertInputs :
          /\ Len(alerts) < MaxAlerts
          /\ CreateAlert(u, b.transactionId, b.alertType, b.severity, b.ruleId)
    \/ \E u \in Actors, a \in 1..(MaxAlerts + 1), v \in StatusUpdates \cup AssignUpdates :
          UpdateAlert(u, a, v)

Spec == Init /\ [][Next]_vars

\* the create-alert request body of the case specification
ManualAlert == [transactionId |-> 1, alertType |-> "manual", severity |-> "low", ruleId |-> {}]

\* the users who send requests while cases are handled: the analyst and the
\* supervisor
CaseActors == {1, 2}

\* alerts are created, updated and linked to cases
NextCase ==
    \/ \E u \in CaseActors :
          /\ Len(alerts) < MaxLinkable
          /\ CreateAlert(u, ManualAlert.transactionId, ManualAlert.alertType,
                         ManualAlert.severity, ManualAlert.ruleId)
    \/ \E u \in CaseActors, a \in 1..(MaxLinkable + 1), v \in StatusUpdates :
          UpdateAlert(u, a, v)
    \/ \E u \in CaseActors, c \in 1..(MaxCases + 1), a \in 1..(MaxLinkable + 1) :
          LinkAlert(u, c, a)
    \/ \E u \in CaseActors, ids \in AlertIdLists(MaxLinkable) :
          /\ Len(cases) < MaxCases
          /\ CreateCase(u, {}, ids)

SpecCase == Init /\ [][NextCase]_vars

(* ------------------ the handlers, one await at a time ------------------ *)

\* A handler runs to its next await in one step; what it holds across the
\* await (its position and its locals) is inflight[s]. The reads that touch
\* no table written here (the customer of the transaction) are part of the
\* step before them.

Free(s) == inflight[s].op = "idle"

Done(s) == inflight' = [inflight EXCEPT ![s] = Idle]

\* requests that have passed the transaction check and will insert an alert
PendingCreates == { s \in Slots : inflight[s].op = "createAlert" }

\* POST /api/alerts up to the INSERT: authorize, validate, SELECT the transaction
CreateAlertBegin(s, user, body) ==
    /\ Free(s)
    /\ UNCHANGED <<aside, catalog, alerts, cases, case_alerts>>
    /\ IF ~authorize(AnalystPlus, user) THEN
            resp' = Reply("createAlert", 403) /\ UNCHANGED inflight
       ELSE IF body.transactionId \notin transactions THEN
            resp' = Reply("createAlert", 404) /\ UNCHANGED inflight
       ELSE /\ inflight' = [inflight EXCEPT ![s] =
                               [op |-> "createAlert", pc |-> "insert", user |-> user, body |-> body]]
            /\ UNCHANGED resp

\* POST /api/alerts: the INSERT and the response
CreateAlertInsert(s) ==
    /\ inflight[s].op = "createAlert" /\ inflight[s].pc = "insert"
    /\ UNCHANGED <<aside, catalog, cases, case_alerts>>
    /\ Done(s)
    /\ LET r == inflight[s] IN
       IF ~RuleFkOk(r.body.ruleId) THEN
            resp' = Reply("createAlert", ErrorStatus("23503")) /\ UNCHANGED alerts
       ELSE /\ alerts' = Append(alerts, NewAlert(r.user, r.body.transactionId, r.body.alertType,
                                                 r.body.severity, r.body.ruleId))
            /\ resp' = Reply("createAlert", 201)

\* PUT /api/alerts/:id up to the UPDATE: authorize, SELECT the alert, the
\* analyst check, the body's keys
UpdateAlertBegin(s, user, alertId, value) ==
    /\ Free(s)
    /\ UNCHANGED <<aside, catalog, alerts, cases, case_alerts>>
    /\ IF ~authorize(AnalystPlus, user) THEN
            resp' = Reply("updateAlert", 403) /\ UNCHANGED inflight
       ELSE IF alertId \notin AlertIds THEN
            resp' = Reply("updateAlert", 404) /\ UNCHANGED inflight
       ELSE IF AlertAccessDenied(user, alerts[alertId].assigned_to) THEN
            resp' = Reply("updateAlert", 403) /\ UNCHANGED inflight
       ELSE IF value.keys = {} THEN
            resp' = Reply("updateAlert", 400) /\ UNCHANGED inflight
       ELSE /\ inflight' = [inflight EXCEPT ![s] =
                               [op |-> "updateAlert", pc |-> "update", user |-> user,
                                alertId |-> alertId, value |-> value]]
            /\ UNCHANGED resp

\* PUT /api/alerts/:id: the UPDATE and the response
UpdateAlertWrite(s) ==
    /\ inflight[s].op = "updateAlert" /\ inflight[s].pc = "update"
    /\ UNCHANGED <<aside, catalog, cases, case_alerts>>
    /\ Done(s)
    /\ LET r == inflight[s] IN
       IF ~UserFkOk(r.value) THEN
            resp' = Reply("updateAlert", ErrorStatus("23503")) /\ UNCHANGED alerts
       ELSE /\ alerts' = [alerts EXCEPT ![r.alertId] = ApplyUpdate(@, r.value)]
            /\ resp' = Reply("updateAlert", 200)

\* POST /api/cases/:id/alerts up to the alert lookup: authorize, SELECT the
\* case, the analyst check
LinkAlertBegin(s, user, caseId, alertId) ==
    /\ Free(s)
    /\ UNCHANGED <<aside, catalog, alerts, cases, case_alerts>>
    /\ IF ~authorize(AnalystPlus, user) THEN
            resp' = Reply("linkAlert", 403) /\ UNCHANGED inflight
       ELSE IF caseId \notin CaseIds THEN
            resp' = Reply("linkAlert", 404) /\ UNCHANGED inflight
       ELSE IF CaseAccessDenied(user, cases[caseId]) THEN
            resp' = Reply("linkAlert", 403) /\ UNCHANGED inflight
       ELSE /\ inflight' = [inflight EXCEPT ![s] =
                               [op |-> "linkAlert", pc |-> "selectAlert", user |-> user,
                                caseId |-> caseId, alertId |-> alertId]]
            /\ UNCHANGED resp

\* POST /api/cases/:id/alerts: SELECT id FROM alerts
LinkAlertSelectAlert(s) ==
    /\ inflight[s].op = "linkAlert" /\ inflight[s].pc = "selectAlert"
    /\ UNCHANGED <<aside, catalog, alerts, cases, case_alerts>>
    /\ IF inflight[s].alertId \notin AlertIds THEN
            resp' = Reply("linkAlert", 404) /\ Done(s)
       ELSE /\ inflight' = [inflight EXCEPT ![s].pc = "insert"]
            /\ UNCHANGED resp

\* POST /api/cases/:id/alerts: the INSERT into case_alerts; 23505 is answered 409
LinkAlertInsert(s) ==
    /\ inflight[s].op = "linkAlert" /\ inflight[s].pc = "insert"
    /\ UNCHANGED <<aside, catalog, alerts, cases>>
    /\ LET r == inflight[s] IN
       IF UniqueViolation(case_alerts, r.caseId, r.alertId) THEN
            /\ resp' = Reply("linkAlert", 409)
            /\ Done(s)
            /\ UNCHANGED case_alerts
       ELSE /\ case_alerts' = InsertCaseAlert(case_alerts, r.caseId, r.alertId)
            /\ inflight' = [inflight EXCEPT ![s].pc = "update"]
            /\ UNCHANGED resp

\* POST /api/cases/:id/alerts: the UPDATE of the alert's status and the response
LinkAlertUpdate(s) ==
    /\ inflight[s].op = "linkAlert" /\ inflight[s].pc = "update"
    /\ UNCHANGED <<aside, catalog, cases, case_alerts>>
    /\ alerts' = AdvanceStatus(alerts, inflight[s].alertId)
    /\ resp' = Reply("linkAlert", 200)
    /\ Done(s)

\* POST /api/cases/:id/alerts: the UPDATE query rejects (the connection is
\* lost, the statement times out); the catch block rethrows whatever is not
\* 23505 and nothing undoes the INSERT
LinkAlertUpdateFails(s) ==
    /\ inflight[s].op = "linkAlert" /\ inflight[s].pc = "update"
    /\ UNCHANGED <<aside, catalog, alerts, cases, case_alerts>>
    /\ resp' = Reply("linkAlert", ErrorStatus("08006"))
    /\ Done(s)

\* create-alert request bodies of two rule matches, of different pairs
MatchInputs ==
    { [transactionId |-> 1, alertType |-> "rule_based", severity |-> "high",   ruleId |-> {1}],
      [transactionId |-> 2, alertType |-> "rule_based", severity |-> "medium", ruleId |-> {2}] }

\* the analyst and the supervisor
ConcActors == {1, 2}

\* two requests at a time, interleaved at their awaits; a create-case request
\* is one database transaction
NextConc ==
    \/ \E s \in Slots, u \in ConcActors, b \in MatchInputs :
          /\ Len(alerts) + Cardinality(PendingCreates) < MaxAlerts
          /\ CreateAlertBegin(s, u, b)
    \/ \E s \in Slots : CreateAlertInsert(s)
    \/ \E s \in Slots, u \in ConcActors, a \in 1..MaxAlerts, st \in {"closed", "new"} :
          UpdateAlertBegin(s, u, a, [keys |-> {"status"}, status |-> st, assignedTo |-> {}])
    \/ \E s \in Slots : UpdateAlertWrite(s)
    \/ \E s \in Slots, u \in ConcActors, c \in 1..MaxCases, a \in 1..(MaxAlerts + 1) :
          LinkAlertBegin(s, u, c, a)
    \/ \E s \in Slots : LinkAlertSelectAlert(s)
    \/ \E s \in Slots : LinkAlertInsert(s)
    \/ \E s \in Slots : LinkAlertUpdate(s)
    \/ \E s \in Slots : LinkAlertUpdateFails(s)
    \/ \E u \in ConcActors :
          /\ Len(cases) < MaxCases
          /\ CreateCase(u, {}, <<>>)

SpecConc == Init /\ [][NextConc]_vars

(* ----------------------------- /api/rules ------------------------------ *)

\* detection_rules.rule_type CHECK constraint, ruleSchema.ruleType
RuleTypes == {"amount", "frequency", "pattern", "location", "velocity"}

\* the roles the rule create, update and test routes allow
SupervisorPlus == {"supervisor", "admin"}

\* ruleSchema: the body passes validation. Every key of conditions is
\* optional whatever the ruleType; names are between 3 and 100 characters,
\* currencies 3 and countries 2 characters long in every body used here
ruleSchema(body) ==
    /\ body.ruleType \in RuleTypes
    /\ \A v \in body.conditions.minAmount : v >= 0
    /\ \A v \in body.conditions.maxAmount : v >= 0
    /\ \A v \in body.conditions.transactionCount : v >= 1
    /\ body.conditions.timeWindow \subseteq {"1h", "24h", "7d", "30d"}
    /\ \A v \in body.conditions.velocityThreshold : v >= 0
    /\ body.conditions.velocityWindow \subseteq {"1h", "24h", "7d"}
    /\ body.severity \subseteq Severities

\* the value Joi returns for an optional key with a default
Default(given, default) == IF given = {} THEN default ELSE CHOOSE v \in given : TRUE

\* the row INSERT INTO detection_rules stores
NewRule(body) ==
    [ name       |-> body.name,
      rule_type  |-> body.ruleType,
      severity   |-> Default(body.severity, "medium"),
      is_active  |-> Default(body.isActive, TRUE),
      conditions |-> body.conditions ]

RuleIds == DOMAIN detection_rules

\* SELECT id FROM detection_rules WHERE name = $1
RulesNamed(name) == { r \in RuleIds : detection_rules[r].name = name }

\* INSERT INTO detection_rules: the row takes the next value of the sequence
InsertRule(body) ==
    /\ detection_rules_id_seq' = detection_rules_id_seq + 1
    /\ detection_rules' = detection_rules @@ ((detection_rules_id_seq + 1) :> NewRule(body))

\* the whole create-rule handler
CreateRule(user, body) ==
    /\ UNCHANGED <<transaction_rows, aside, alerts, cases, case_alerts, inflight>>
    /\ IF ~authorize(SupervisorPlus, user) THEN
            /\ resp' = Reply("createRule", 403)
            /\ UNCHANGED <<detection_rules, detection_rules_id_seq>>
       ELSE IF ~ruleSchema(body) THEN
            /\ resp' = Reply("createRule", 400)
            /\ UNCHANGED <<detection_rules, detection_rules_id_seq>>
       ELSE IF RulesNamed(body.name) # {} THEN
            /\ resp' = Reply("createRule", 409)
            /\ UNCHANGED <<detection_rules, detection_rules_id_seq>>
       ELSE
            /\ InsertRule(body)
            /\ resp' = Reply("createRule", 201)

\* updateRuleSchema: conditions is any object, the severity is one of four
updateRuleSchema(value) ==
    ("severity" \in value.keys) => (value.severity \in Severities)

\* UPDATE detection_rules SET <every key of the body> WHERE id = ruleId
ApplyRuleUpdate(row, value) ==
    [row EXCEPT !.name       = IF "name" \in value.keys THEN value.name ELSE @,
                !.conditions = IF "conditions" \in value.keys THEN value.conditions ELSE @,
                !.severity   = IF "severity" \in value.keys THEN value.severity ELSE @,
                !.is_active  = IF "isActive" \in value.keys THEN value.isActive ELSE @]

\* the whole update-rule handler; value.keys is Object.keys of the body
UpdateRule(user, ruleId, value) ==
    /\ UNCHANGED <<detection_rules_id_seq, transaction_rows, aside, alerts, cases, case_alerts, inflight>>
    /\ IF ~authorize(SupervisorPlus, user) THEN
            /\ resp' = Reply("updateRule", 403)
            /\ UNCHANGED detection_rules
       ELSE IF ~updateRuleSchema(value) THEN
            /\ resp' = Reply("updateRule", 400)
            /\ UNCHANGED detection_rules
       ELSE IF ruleId \notin RuleIds THEN
            /\ resp' = Reply("updateRule", 404)
            /\ UNCHANGED detection_rules
       ELSE IF value.keys = {} THEN
            /\ resp' = Reply("updateRule", 400)
            /\ UNCHANGED detection_rules
       ELSE
            /\ detection_rules' = [detection_rules EXCEPT ![ruleId] = ApplyRuleUpdate(@, value)]
            /\ resp' = Reply("updateRule", 200)

\* SELECT COUNT(*) FROM alerts WHERE rule_id = $1
AlertCount(ruleId) == Cardinality({ a \in AlertIds : alerts[a].rule_id = {ruleId} })

\* DELETE FROM detection_rules WHERE id = $1
RemoveRule(rules, ruleId) == [ r \in (DOMAIN rules) \ {ruleId} |-> rules[r] ]

\* a delete-rule handler that removes the rule together with its alerts
DeleteRuleWithAlerts(user, ruleId) ==
    /\ UNCHANGED <<detection_rules_id_seq, transaction_rows, aside, cases, case_alerts, inflight>>
    /\ IF ~authorize({"admin"}, user) \/ ruleId \notin RuleIds THEN
            /\ resp' = Reply("deleteRule", 404)
            /\ UNCHANGED <<detection_rules, alerts>>
       ELSE
            /\ detection_rules' = RemoveRule(detection_rules, ruleId)
            /\ alerts' = SelectSeq(alerts, LAMBDA row : row.rule_id # {ruleId})
            /\ resp' = Reply("deleteRule", 200)

\* the whole delete-rule handler
DeleteRule(user, ruleId) ==
    /\ UNCHANGED <<detection_rules_id_seq, transaction_rows, aside, alerts, cases, case_alerts, inflight>>
    /\ IF ~authorize({"admin"}, user) THEN
            /\ resp' = Reply("deleteRule", 403)
            /\ UNCHANGED detection_rules
       ELSE IF ruleId \notin RuleIds THEN
            /\ resp' = Reply("deleteRule", 404)
            /\ UNCHANGED detection_rules
       ELSE IF AlertCount(ruleId) > 0 THEN
            /\ resp' = Reply("deleteRule", 400)
            /\ UNCHANGED detection_rules
       ELSE
            /\ detection_rules' = RemoveRule(detection_rules, ruleId)
            /\ resp' = Reply("deleteRule", 200)

(* ------------------------ POST /api/rules/:id/test --------------------- *)

\* if (conditions.x) on a number: the key is present and not 0
Truthy(v) == v # {} /\ v # {0}

\* conditions.x && conditions.x.length > 0 on an array
NonEmptyArray(v) == v # {} /\ v # {{}}

\* WHERE processed_at >= $1 AND processed_at <= $2
InPeriod(t, startDate, endDate) == t.processed_at >= startDate /\ t.processed_at <= endDate

\* the WHERE clause case 'amount' assembles
AmountQuery(c, startDate, endDate, t) ==
    /\ InPeriod(t, startDate, endDate)
    /\ Truthy(c.minAmount) => \A v \in c.minAmount : t.amount >= v
    /\ Truthy(c.maxAmount) => \A v \in c.maxAmount : t.amount <= v
    /\ c.currency # {} => t.currency \in c.currency

\* conditions.transactionCount || 10
TransactionCountOr10(c) == IF Truthy(c.transactionCount) THEN CHOOSE v \in c.transactionCount : TRUE ELSE 10

\* the frequent_accounts CTE of case 'frequency': the accounts with at least
\* $3 transactions processed within the test period
frequent_accounts(c, startDate, endDate) ==
    { acc \in { transaction_rows[x].from_account_id : x \in DOMAIN transaction_rows } :
        Cardinality({ x \in DOMAIN transaction_rows :
                        /\ transaction_rows[x].from_account_id = acc
                        /\ InPeriod(transaction_rows[x], startDate, endDate) })
            >= TransactionCountOr10(c) }

\* the query of case 'frequency': transactions of the period joined with
\* frequent_accounts
FrequencyQuery(c, startDate, endDate, t) ==
    /\ InPeriod(t, startDate, endDate)
    /\ t.from_account_id \in frequent_accounts(c, startDate, endDate)

\* a pattern query that leaves out the round-amount clause
PatternQueryNoRound(c, startDate, endDate, t) ==
    /\ InPeriod(t, startDate, endDate)
    /\ NonEmptyArray(c.transactionTypes) => \A arr \in c.transactionTypes : t.transaction_type \in arr
    /\ NonEmptyArray(c.channels) => \A arr \in c.channels : t.channel \in arr

PatternQuery(c, startDate, endDate, t) ==
    /\ InPeriod(t, startDate, endDate)
    /\ NonEmptyArray(c.transactionTypes) => \A arr \in c.transactionTypes : t.transaction_type \in arr
    /\ NonEmptyArray(c.channels) => \A arr \in c.channels : t.channel \in arr
    /\ (c.roundAmounts = {TRUE}) => t.amount % Dollars(1000) = 0

\* the WHERE clause case 'location' assembles; a NULL location_country
\* equals no array item
LocationQuery(c, startDate, endDate, t) ==
    /\ InPeriod(t, startDate, endDate)
    /\ NonEmptyArray(c.blockedCountries) =>
          \A arr \in c.blockedCountries : t.location_country # {} /\ t.location_country \subseteq arr

\* the rule types the switch has a case for
TestedTypes == {"amount", "frequency", "pattern", "location"}

\* the trigger_reason column each case selects
trigger_reason(rule_type) ==
    CASE rule_type = "amount"    -> "Amount threshold exceeded"
      [] rule_type = "frequency" -> "High frequency transactions"
      [] rule_type = "pattern"   -> "Pattern match detected"
      [] rule_type = "location"  -> "Suspicious location detected"

\* switch (rule.rule_type): the transaction is selected by the rule's query
testQuery(rule, startDate, endDate, t) ==
    CASE rule.rule_type = "amount"    -> AmountQuery(rule.conditions, startDate, endDate, t)
      [] rule.rule_type = "frequency" -> FrequencyQuery(rule.conditions, startDate, endDate, t)
      [] rule.rule_type = "pattern"   -> PatternQuery(rule.conditions, startDate, endDate, t)
      [] rule.rule_type = "location"  -> LocationQuery(rule.conditions, startDate, endDate, t)

\* the ids of the rows the query selects before ORDER BY and LIMIT
Selected(rule, startDate, endDate) ==
    { x \in DOMAIN transaction_rows : testQuery(rule, startDate, endDate, transaction_rows[x]) }

\* the sequences without repetition over a set of ids
Listings(ids) ==
    { m \in UNION { [1..k -> ids] : k \in 0..Cardinality(ids) } :
        \A i, j \in DOMAIN m : i # j => m[i] # m[j] }

\* an ORDER BY processed_at ASC LIMIT n: the oldest rows first
OrderLimitOldestFirst(ids, n) ==
    { m \in Listings(ids) :
        /\ Len(m) = IF n < Cardinality(ids) THEN n ELSE Cardinality(ids)
        /\ \A i, j \in DOMAIN m :
              i < j => transaction_rows[m[i]].processed_at <= transaction_rows[m[j]].processed_at
        /\ \A i \in DOMAIN m, x \in ids \ { m[k] : k \in DOMAIN m } :
              transaction_rows[m[i]].processed_at <= transaction_rows[x].processed_at }

\* ORDER BY processed_at DESC LIMIT n: every result the database may
\* return (rows of one processed_at come in any order)
OrderLimit(ids, n) ==
    { m \in Listings(ids) :
        /\ Len(m) = IF n < Cardinality(ids) THEN n ELSE Cardinality(ids)
        /\ \A i, j \in DOMAIN m :
              i < j => transaction_rows[m[i]].processed_at >= transaction_rows[m[j]].processed_at
        /\ \A i \in DOMAIN m, x \in ids \ { m[k] : k \in DOMAIN m } :
              transaction_rows[m[i]].processed_at >= transaction_rows[x].processed_at }

\* the response of a completed rule test
TestReply(ruleId, rule_type, startDate, endDate, m) ==
    [ op |-> "testRule", code |-> 200,
      rule |-> [id |-> ruleId, ruleType |-> rule_type],
      testPeriod |-> [startDate |-> startDate, endDate |-> endDate],
      trigger_reason |-> trigger_reason(rule_type),
      matches |-> m, matchCount |-> Len(m) ]

\* a rule test that also inserts an alert for the first transaction it matched
TestRuleEmits(user, ruleId, startDate, endDate, limit) ==
    /\ UNCHANGED <<aside, catalog, cases, case_alerts, inflight>>
    /\ ruleId \in RuleIds
    /\ detection_rules[ruleId].rule_type \in TestedTypes
    /\ \E m \in OrderLimit(Selected(detection_rules[ruleId], startDate, endDate), Default(limit, 100)) :
          /\ resp' = TestReply(ruleId, detection_rules[ruleId].rule_type, startDate, endDate, m)
          /\ alerts' = IF m = <<>> THEN alerts
                       ELSE Append(alerts, NewAlert(user, m[1], "rule_based",
                                                    detection_rules[ruleId].severity, {ruleId}))

\* the whole rule-test handler; limit is {} when the body has none
TestRule(user, ruleId, startDate, endDate, limit) ==
    /\ UNCHANGED <<aside, catalog, alerts, cases, case_alerts, inflight>>
    /\ IF ~authorize(SupervisorPlus, user) THEN
            resp' = Reply("testRule", 403)
       ELSE IF ruleId \notin RuleIds THEN
            resp' = Reply("testRule", 404)
       ELSE IF detection_rules[ruleId].rule_type \notin TestedTypes THEN
            resp' = Reply("testRule", 400)
       ELSE IF Default(limit, 100) < 0 THEN
            resp' = Reply("testRule", 500)
       ELSE
            \E m \in OrderLimit(Selected(detection_rules[ruleId], startDate, endDate),
                                Default(limit, 100)) :
               resp' = TestReply(ruleId, detection_rules[ruleId].rule_type, startDate, endDate, m)

(* ------------- the condition evaluators of the live path --------------- *)

\* the length of a timeWindow or velocityWindow in hours
WindowHours(w) ==
    CASE w = "1h" -> 1 [] w = "24h" -> 24 [] w = "7d" -> 168 [] w = "30d" -> 720

\* a list condition is set when the key is present and the list has items
ListSet(v) == v # {} /\ v # {{}}

\* transactions of the same source account within [now - window, now]
History(t, now, hours) ==
    { x \in DOMAIN transaction_rows :
        /\ transaction_rows[x].from_account_id = t.from_account_id
        /\ transaction_rows[x].processed_at >= now - hours
        /\ transaction_rows[x].processed_at <= now }

RECURSIVE SumAmounts(_)
SumAmounts(ids) ==
    IF ids = {} THEN 0
    ELSE LET x == CHOOSE y \in ids : TRUE
         IN transaction_rows[x].amount + SumAmounts(ids \ {x})

\* Amount: amount within [min, max], currency if set, type if set
AmountMatch(c, t) ==
    /\ \A v \in c.minAmount : t.amount >= v
    /\ \A v \in c.maxAmount : t.amount <= v
    /\ c.currency # {} => t.currency \in c.currency
    /\ ListSet(c.transactionTypes) => \A arr \in c.transactionTypes : t.transaction_type \in arr

\* Frequency: count of the account's transactions of the window (of the
\* rule's channels if set) >= transactionCount
FrequencyMatch(c, t, now) ==
    /\ c.transactionCount # {} /\ c.timeWindow # {}
    /\ \A n \in c.transactionCount, w \in c.timeWindow :
          Cardinality({ x \in History(t, now, WindowHours(w)) :
                          ListSet(c.channels) =>
                              \A arr \in c.channels : transaction_rows[x].channel \in arr }) >= n

\* Pattern: type if set, channel if set, round amount if asked
PatternMatch(c, t) ==
    /\ ListSet(c.transactionTypes) => \A arr \in c.transactionTypes : t.transaction_type \in arr
    /\ ListSet(c.channels) => \A arr \in c.channels : t.channel \in arr
    /\ (TRUE \in c.roundAmounts) => t.amount % Dollars(1000) = 0

\* Location: country in blockedCountries and amount >= minAmount if set
LocationMatch(c, t) ==
    /\ \E arr \in c.blockedCountries : t.location_country # {} /\ t.location_country \subseteq arr
    /\ \A v \in c.minAmount : t.amount >= v

\* Velocity: sum of the account's amounts of the window >= velocityThreshold
VelocityMatch(c, t, now) ==
    /\ c.velocityThreshold # {} /\ c.velocityWindow # {}
    /\ \A v \in c.velocityThreshold, w \in c.velocityWindow :
          SumAmounts(History(t, now, WindowHours(w))) >= v

\* the Rule Evaluator on one rule as the transaction arrives: the
\* evaluation instant is the transaction's processed timestamp
Evaluate(rule, t) ==
    CASE rule.rule_type = "amount"    -> AmountMatch(rule.conditions, t)
      [] rule.rule_type = "frequency" -> FrequencyMatch(rule.conditions, t, t.processed_at)
      [] rule.rule_type = "pattern"   -> PatternMatch(rule.conditions, t)
      [] rule.rule_type = "location"  -> LocationMatch(rule.conditions, t)
      [] rule.rule_type = "velocity"  -> VelocityMatch(rule.conditions, t, t.processed_at)

\* the trigger reason of each condition evaluator
TriggerReason(rule_type) ==
    CASE rule_type = "amount"    -> "Amount threshold exceeded"
      [] rule_type = "frequency" -> "High frequency transactions"
      [] rule_type = "pattern"   -> "Pattern match detected"
      [] rule_type = "location"  -> "Suspicious location detected"
      [] rule_type = "velocity"  -> "Rapid velocity transaction"

(* --------------------- specification: rule tests ----------------------- *)

\* a create-rule request body
RuleBody(name, ruleType, set) ==
    [ name |-> name, ruleType |-> ruleType, conditions |-> Conditions(set),
      severity |-> {}, isActive |-> {} ]

\* create-rule request bodies: one or two of each rule type, one that fails
\* ruleSchema (transactionCount 0), one with the name of a seeded rule
RuleBodies ==
    { RuleBody("Large NZD", "amount", [minAmount |-> {Dollars(10000)}, currency |-> {"NZD"}]),
      RuleBody("Zero cap", "amount", [maxAmount |-> {0}]),
      RuleBody("Two in a day", "frequency", [transactionCount |-> {2}, timeWindow |-> {"24h"}]),
      RuleBody("Round wire", "pattern", [roundAmounts |-> {TRUE}, channels |-> {{"wire"}}]),
      RuleBody("Deposits", "pattern", [transactionTypes |-> {{"deposit"}}]),
      RuleBody("High-risk transfer", "location",
               [blockedCountries |-> {{"IR"}}, minAmount |-> {Dollars(5000)}]),
      RuleBody("Nowhere", "location", << >>),
      RuleBody("Fast money", "velocity",
               [velocityThreshold |-> {Dollars(15000)}, velocityWindow |-> {"1h"}]),
      RuleBody("No count", "frequency", [transactionCount |-> {0}]),
      RuleBody("High Frequency Wire Transfers", "frequency", [transactionCount |-> {5}]) }

\* rows the transactions table may hold when rules are tested
TransactionRows ==
    { Transaction(1, Dollars(10000), "NZD", "deposit", "branch", {"NZ"}, 30),
      Transaction(1, Dollars(10000) - 1, "NZD", "deposit", "branch", {"NZ"}, 30),
      Transaction(1, Dollars(15000), "USD", "transfer", "wire", {"IR"}, 0),
      Transaction(2, Dollars(5050), "NZD", "withdrawal", "wire", {}, 1),
      Transaction(2, Dollars(3000), "NZD", "transfer", "online", {"IR"}, 30),
      Transaction(1, Dollars(20000), "NZD", "transfer", "wire", {"NZ"}, 30) }

\* the test periods requested: all the hours, the first hours, a period that
\* ends before it starts
TestPeriods == { <<0, 40>>, <<0, 1>>, <<40, 0>> }

\* the limits requested: none (100 applies), 1, a negative one
Limits == { {}, {1}, {-1} }

\* the analyst and the supervisor
TestActors == {1, 2}

\* the seeded rules and any two rows of transactions; no alert, no case
InitTest ==
    /\ detection_rules = SeededRules
    /\ detection_rules_id_seq = 2
    /\ transaction_rows \in [transactions -> TransactionRows]
    /\ alerts = <<>>
    /\ cases = <<>>
    /\ case_alerts = EmptyBag
    /\ inflight = [s \in Slots |-> Idle]
    /\ resp = [op |-> "none", code |-> 0]
    /\ AsideInit

\* rules are created and tested
NextTest ==
    \/ \E u \in TestActors, b \in RuleBodies :
          /\ detection_rules_id_seq < MaxRules
          /\ CreateRule(u, b)
    \/ \E u \in TestActors, r \in 1..(detection_rules_id_seq + 1), p \in TestPeriods, l \in Limits :
          TestRule(u, r, p[1], p[2], l)

SpecTest == InitTest /\ [][NextTest]_vars

(* ------------------ specification: the rule catalog -------------------- *)

\* create-rule requests that have passed the name check and will insert
PendingRules == { s \in Slots : inflight[s].op = "createRule" }

\* POST /api/rules up to the INSERT: authorize, validate, SELECT by name
CreateRuleBegin(s, user, body) ==
    /\ Free(s)
    /\ UNCHANGED <<aside, catalog, alerts, cases, case_alerts>>
    /\ IF ~authorize(SupervisorPlus, user) THEN
            resp' = Reply("createRule", 403) /\ UNCHANGED inflight
       ELSE IF ~ruleSchema(body) THEN
            resp' = Reply("createRule", 400) /\ UNCHANGED inflight
       ELSE IF RulesNamed(body.name) # {} THEN
            resp' = Reply("createRule", 409) /\ UNCHANGED inflight
       ELSE /\ inflight' = [inflight EXCEPT ![s] =
                               [op |-> "createRule", pc |-> "insert", body |-> body]]
            /\ UNCHANGED resp

\* POST /api/rules: the INSERT and the response
CreateRuleInsert(s) ==
    /\ inflight[s].op = "createRule" /\ inflight[s].pc = "insert"
    /\ UNCHANGED <<transaction_rows, aside, alerts, cases, case_alerts>>
    /\ Done(s)
    /\ InsertRule(inflight[s].body)
    /\ resp' = Reply("createRule", 201)

\* an update-rule request body
RuleUpdate(keys, name, conditions, isActive) ==
    [ keys |-> keys, name |-> name, conditions |-> conditions,
      severity |-> "medium", isActive |-> isActive ]

\* update-rule request bodies that pass updateRuleSchema: a new name, empty
\* conditions, deactivation, nothing at all
RuleUpdates ==
    { RuleUpdate({"name"}, "High Frequency Wire Transfers", NoConditions, TRUE),
      RuleUpdate({"conditions"}, "", NoConditions, TRUE),
      RuleUpdate({"isActive"}, "", NoConditions, FALSE),
      RuleUpdate({}, "", NoConditions, TRUE) }

\* create-rule request bodies of the catalog specification
CatalogBodies ==
    { RuleBody("Nowhere", "location", << >>),
      RuleBody("Two in a day", "frequency", [transactionCount |-> {2}, timeWindow |-> {"24h"}]),
      RuleBody("No count", "frequency", [transactionCount |-> {0}]),
      RuleBody("Large Cash Transaction - NZD 10,000+", "amount", [minAmount |-> {Dollars(10000)}]) }

\* the supervisor and the admin
RuleActors == {2, 4}

\* rules are created (two requests at a time, interleaved at the await
\* between the name check and the INSERT), updated and deleted
NextCatalog ==
    \/ \E s \in Slots, u \in RuleActors, b \in CatalogBodies :
          /\ detection_rules_id_seq + Cardinality(PendingRules) < MaxCatalog
          /\ CreateRuleBegin(s, u, b)
    \/ \E s \in Slots : CreateRuleInsert(s)
    \/ \E u \in RuleActors, r \in 1..(MaxCatalog + 1), v \in RuleUpdates : UpdateRule(u, r, v)
    \/ \E u \in RuleActors, r \in 1..(MaxCatalog + 1) : DeleteRule(u, r)

SpecCatalog == Init /\ [][NextCatalog]_vars

(* ------------- specification: alerts while rules change --------------- *)

\* the create-alert request body of a match of rule 1
RuleAlert == [transactionId |-> 1, alertType |-> "rule_based", severity |-> "high", ruleId |-> {1}]

\* update-alert request body that closes the alert
CloseUpdate == [keys |-> {"status"}, status |-> "closed", assignedTo |-> {}]

\* the analyst and the admin
LifeActors == {1, 4}

\* alerts of rule 1 are created, closed and linked to cases while the seeded
\* rules are deactivated and deleted
NextLife ==
    \/ \E u \in LifeActors :
          /\ Len(alerts) < MaxLinkable
          /\ CreateAlert(u, RuleAlert.transactionId, RuleAlert.alertType,
                         RuleAlert.severity, RuleAlert.ruleId)
    \/ \E u \in LifeActors, a \in 1..(MaxLinkable + 1) : UpdateAlert(u, a, CloseUpdate)
    \/ \E u \in LifeActors, c \in 1..(MaxCases + 1), a \in 1..(MaxLinkable + 1) :
          LinkAlert(u, c, a)
    \/ \E u \in LifeActors, ids \in AlertIdLists(MaxLinkable) :
          /\ Len(cases) < MaxCases
          /\ CreateCase(u, {}, ids)
    \/ \E u \in LifeActors, r \in 1..3 :
          UpdateRule(u, r, RuleUpdate({"isActive"}, "", NoConditions, FALSE))
    \/ \E u \in LifeActors, r \in 1..3 : DeleteRule(u, r)

SpecLife == Init /\ [][NextLife]_vars

(* ------- specification: rule deletion against alert creation ---------- *)

\* a reply that carries the error message of its body
ErrorReply(op, code, error) == [op |-> op, code |-> code, error |-> error]

\* a DELETE of a rule that ignores the references of the alerts
ReferencedByAlertNoFk(ruleId) == FALSE

\* alerts.rule_id REFERENCES detection_rules(id), with no ON DELETE action:
\* the DELETE of a rule that an alert references raises 23503
ReferencedByAlert(ruleId) == \E a \in AlertIds : alerts[a].rule_id = {ruleId}

\* DELETE /api/rules/:id up to the count: authorize, SELECT the rule
DeleteRuleBegin(s, user, ruleId) ==
    /\ Free(s)
    /\ UNCHANGED <<aside, catalog, alerts, cases, case_alerts>>
    /\ IF ~authorize({"admin"}, user) THEN
            resp' = ErrorReply("deleteRule", 403, "Access denied. Insufficient permissions.") /\ UNCHANGED inflight
       ELSE IF ruleId \notin RuleIds THEN
            resp' = ErrorReply("deleteRule", 404, "Rule not found") /\ UNCHANGED inflight
       ELSE /\ inflight' = [inflight EXCEPT ![s] =
                               [op |-> "deleteRule", pc |-> "count", ruleId |-> ruleId]]
            /\ UNCHANGED resp

\* DELETE /api/rules/:id: SELECT COUNT(*) of the rule's alerts
DeleteRuleCount(s) ==
    /\ inflight[s].op = "deleteRule" /\ inflight[s].pc = "count"
    /\ UNCHANGED <<aside, catalog, alerts, cases, case_alerts>>
    /\ IF AlertCount(inflight[s].ruleId) > 0 THEN
            /\ resp' = ErrorReply("deleteRule", 400, "Cannot delete rule with associated alerts")
            /\ Done(s)
       ELSE /\ inflight' = [inflight EXCEPT ![s].pc = "delete"]
            /\ UNCHANGED resp

\* DELETE /api/rules/:id: the DELETE (of no row when the rule is gone by
\* now) and the response; a foreign key violation goes to errorHandler
DeleteRuleDelete(s) ==
    /\ inflight[s].op = "deleteRule" /\ inflight[s].pc = "delete"
    /\ UNCHANGED <<detection_rules_id_seq, transaction_rows, aside, alerts, cases, case_alerts>>
    /\ Done(s)
    /\ IF ReferencedByAlert(inflight[s].ruleId) THEN
            /\ resp' = ErrorReply("deleteRule", ErrorStatus("23503"), "Referenced resource does not exist")
            /\ UNCHANGED detection_rules
       ELSE /\ detection_rules' = RemoveRule(detection_rules, inflight[s].ruleId)
            /\ resp' = Reply("deleteRule", 200)

\* the analyst and the admin
GuardActors == {1, 4}

\* alerts of the two seeded rules are created while the rules are deleted,
\* two requests at a time, interleaved at their awaits
NextGuard ==
    \/ \E s \in Slots, u \in GuardActors, b \in MatchInputs :
          /\ Len(alerts) + Cardinality(PendingCreates) < MaxAlerts
          /\ CreateAlertBegin(s, u, b)
    \/ \E s \in Slots : CreateAlertInsert(s)
    \/ \E s \in Slots, u \in GuardActors, r \in 1..3 : DeleteRuleBegin(s, u, r)
    \/ \E s \in Slots : DeleteRuleCount(s)
    \/ \E s \in Slots : DeleteRuleDelete(s)

SpecGuard == Init /\ [][NextGuard]_vars

(* -------------------- POST /api/transactions/bulk ---------------------- *)

\* the longest batch imported
MaxBatch == 2

\* accounts.account_number of the accounts present
account_numbers == {"ACC1", "ACC2"}

\* an item of the transactions array that passes bulkTransactionSchema
\* (amount, transactionType and channel are valid in every item used here)
BulkItem(transactionId, fromAccountNumber, toAccountNumber) ==
    [ transactionId     |-> transactionId,
      fromAccountNumber |-> fromAccountNumber,
      toAccountNumber   |-> toAccountNumber ]

\* bulkTransactionSchema: an array of 1 to 1000 items
bulkTransactionSchema(batch) == Len(batch) >= 1 /\ Len(batch) <= 1000

\* an element of the errors array
ImportError(i, txn, error) == [index |-> i, transactionId |-> txn.transactionId, error |-> error]

\* the loop's state before its first item: the locals inserted and errors,
\* the transaction_id values the open transaction has written, and whether
\* a failed statement has put the open transaction into the aborted state
ImportStart == [inserted |-> <<>>, errors |-> <<>>, written |-> {}, aborted |-> FALSE]

\* one pass of the loop body over item i (counted from 0). In an aborted
\* transaction the first SELECT raises 25P02, which the item's catch
\* records; an INSERT of a transaction_id that is present (UNIQUE) raises
\* 23505, which the catch records and which aborts the transaction
ImportItem(st, i, txn) ==
    IF st.aborted THEN
        [st EXCEPT !.errors = Append(@, ImportError(i, txn, "25P02"))]
    ELSE IF txn.fromAccountNumber \notin account_numbers THEN
        [st EXCEPT !.errors = Append(@, ImportError(i, txn, "From account not found"))]
    ELSE IF txn.toAccountNumber \notin account_numbers THEN
        [st EXCEPT !.errors = Append(@, ImportError(i, txn, "To account not found"))]
    ELSE IF txn.transactionId \in transaction_ids \cup st.written THEN
        [st EXCEPT !.errors = Append(@, ImportError(i, txn, "23505")), !.aborted = TRUE]
    ELSE
        [st EXCEPT !.inserted = Append(@, txn.transactionId),
                   !.written  = @ \cup {txn.transactionId}]

\* the loop over the first n items of the batch
RECURSIVE ImportLoop(_, _)
ImportLoop(batch, n) ==
    IF n = 0 THEN ImportStart
    ELSE ImportItem(ImportLoop(batch, n - 1), n - 1, batch[n])

\* COMMIT: ends an aborted transaction by rolling it back, without an error
Commit(st) == IF st.aborted THEN transaction_ids ELSE transaction_ids \cup st.written

\* the response of a completed import (errors holds the first 10 errors)
ImportReply(batch, st) ==
    [ op       |-> "bulkImport", code |-> 200,
      summary  |-> [ total      |-> Len(batch),
                     successful |-> Len(st.inserted),
                     failed     |-> Len(st.errors) ],
      inserted |-> st.inserted,
      errors   |-> SubSeq(st.errors, 1, IF Len(st.errors) < 10 THEN Len(st.errors) ELSE 10) ]

\* the whole bulk import handler
BulkImport(user, batch) ==
    /\ UNCHANGED <<core, inflight, user_rows, sars, server_time, limiterVars, clientVars>>
    /\ IF ~authorize(SupervisorPlus, user) THEN
            /\ resp' = Reply("bulkImport", 403)
            /\ UNCHANGED transaction_ids
       ELSE IF ~bulkTransactionSchema(batch) THEN
            /\ resp' = Reply("bulkImport", 400)
            /\ UNCHANGED transaction_ids
       ELSE LET st == ImportLoop(batch, Len(batch)) IN
            /\ transaction_ids' = Commit(st)
            /\ resp' = ImportReply(batch, st)

(* ------------------- specification: bulk imports ---------------------- *)

\* items of new and of present transaction_id, between accounts that exist
\* and from or to an account that does not
BulkItems ==
    { BulkItem(t, "ACC1", "ACC2") : t \in {"T1", "T3", "T4", "T5"} }
        \cup { BulkItem("T3", "ACC9", "ACC2"), BulkItem("T4", "ACC1", "ACC9") }

\* the batches of at most n items
Batches(n) == UNION { [1..k -> BulkItems] : k \in 0..n }

\* the analyst and the supervisor
ImportActors == {1, 2}

\* batches are imported one after the other
NextImport ==
    \E u \in ImportActors, batch \in Batches(MaxBatch) : BulkImport(u, batch)

SpecImport == Init /\ [][NextImport]_vars

(* ------------------------- createRateLimiter --------------------------- *)

\* the latest time of the server's clock
MaxClock == 4

\* createRateLimiter(windowMs, maxRequests): a limiter of a window of two
\* clock ticks that holds two requests
windowMs == 2

maxRequests == 2

\* store.get(key).filter(timestamp => timestamp > windowStart), [] for a
\* key the store does not have
Filtered(key, windowStart) ==
    IF key \in DOMAIN store THEN SelectSeq(store[key], LAMBDA timestamp : timestamp > windowStart)
    ELSE <<>>

\* store.set(key, requests)
StoreSet(key, requests) == (key :> requests) @@ store

\* what a request that is passed on carries: the X-RateLimit headers
Passed(remaining) == [op |-> "rateLimiter", code |-> 0, remaining |-> remaining]

\* a limiter that records the request before it decides
RateLimiterRecordsAll(key) ==
    /\ UNCHANGED <<core, inflight, transaction_ids, user_rows, sars, server_time, clientVars>>
    /\ LET requests == Append(Filtered(key, server_time - windowMs), server_time) IN
       /\ store' = StoreSet(key, requests)
       /\ IF Len(requests) > maxRequests THEN
              /\ resp' = ErrorReply("rateLimiter", 429, "Too many requests, please try again later.")
              /\ UNCHANGED passed
          ELSE
              /\ passed' = [passed EXCEPT ![key] = Append(@, server_time)]
              /\ resp' = Passed(maxRequests - Len(requests))

\* the middleware createRateLimiter returns, for a request of req.ip = key
RateLimiter(key) ==
    /\ UNCHANGED <<core, inflight, transaction_ids, user_rows, sars, server_time, clientVars>>
    /\ LET requests == Filtered(key, server_time - windowMs) IN
       IF Len(requests) >= maxRequests THEN
            /\ store' = StoreSet(key, requests)
            /\ resp' = ErrorReply("rateLimiter", 429, "Too many requests, please try again later.")
            /\ UNCHANGED passed
       ELSE
            /\ store' = StoreSet(key, Append(requests, server_time))
            /\ passed' = [passed EXCEPT ![key] = Append(@, server_time)]
            /\ resp' = Passed(maxRequests - (Len(requests) + 1))

\* Date.now() advances
Tick ==
    /\ server_time' = server_time + 1
    /\ UNCHANGED <<core, inflight, resp, transaction_ids, user_rows, sars, limiterVars, clientVars>>

(* ----------------- specification: the rate limiter --------------------- *)

\* requests of two keys arrive while time passes
NextLimiter ==
    \/ \E key \in Keys : RateLimiter(key)
    \/ server_time < MaxClock /\ Tick

SpecLimiter == Init /\ [][NextLimiter]_vars

(* --------------------------- /api/auth --------------------------------- *)

\* users.role CHECK constraint, registerSchema.role
Roles == {"admin", "supervisor", "analyst", "viewer"}

\* passwords with a lower case letter, an upper case letter, a digit and a
\* special character, 8 characters or more (registerSchema.password)
StrongPasswords == {"Str0ng!pass"}

\* a register request body; role holds {} when the body has no role
RegisterBody(username, email, password, role) ==
    [username |-> username, email |-> email, password |-> password, role |-> role]

\* registerSchema: the body passes validation (user names and emails are
\* well formed, firstName and lastName present in every body used here)
registerSchema(body) ==
    /\ body.password \in StrongPasswords
    /\ body.role \subseteq Roles

\* SELECT id FROM users WHERE username = $1 OR email = $2
ExistingUser(username, email) ==
    { i \in DOMAIN user_rows : user_rows[i].username = username \/ user_rows[i].email = email }

\* the whole register handler of the auth routes; the route has no
\* authentication middleware, requester is the user of the request's token
\* ({} without one) and the handler does not read it
Register(requester, body) ==
    /\ UNCHANGED <<core, inflight, transaction_ids, sars, server_time, limiterVars, clientVars>>
    /\ IF ~registerSchema(body) THEN
            /\ resp' = ErrorReply("register", 400, "Invalid input data")
            /\ UNCHANGED user_rows
       ELSE IF ExistingUser(body.username, body.email) # {} THEN
            /\ resp' = ErrorReply("register", 409, "User with this username or email already exists")
            /\ UNCHANGED user_rows
       ELSE
            /\ user_rows' = Append(user_rows, UserRow(body.username, body.email,
                                                      Default(body.role, "analyst"), TRUE, body.password))
            /\ resp' = Reply("register", 201)

\* loginSchema: a user name of 3 to 50 letters and digits, a password of 6
\* to 128 characters (true of every user name used here)
loginSchema(username, password) == password # "short"

\* the response of the login handler to a request, by the users table
LoginReply(rows, username, password) ==
    LET userQuery == { i \in DOMAIN rows : rows[i].username = username } IN
    IF ~loginSchema(username, password) THEN
        ErrorReply("login", 400, "Invalid input data")
    ELSE IF userQuery = {} THEN
        ErrorReply("login", 401, "Invalid credentials")
    ELSE LET user == rows[CHOOSE i \in userQuery : TRUE] IN
         IF ~user.is_active THEN
             ErrorReply("login", 401, "Account is inactive")
         ELSE IF password # user.password THEN
             ErrorReply("login", 401, "Invalid credentials")
         ELSE
             [op |-> "login", code |-> 200, user |-> username, expiresIn |-> "24h"]

\* the whole login handler (last_login is a column nothing here reads)
Login(username, password) ==
    /\ UNCHANGED <<core, inflight, aside>>
    /\ resp' = LoginReply(user_rows, username, password)

(* ------------- specification: registrations and logins ----------------- *)

\* the seeded users, each active or deactivated
InitAccounts ==
    /\ detection_rules = SeededRules
    /\ detection_rules_id_seq = 2
    /\ transaction_rows = SampleTransactions
    /\ alerts = <<>>
    /\ cases = <<>>
    /\ case_alerts = EmptyBag
    /\ inflight = [s \in Slots |-> Idle]
    /\ resp = [op |-> "none", code |-> 0]
    /\ user_rows \in { [ u \in 1..4 |-> [SeededUsers[u] EXCEPT !.is_active = active[u]] ] :
                          active \in [1..4 -> BOOLEAN] }
    /\ RestInit

\* who sends a register request: nobody the server knows, or a seeded user
Requesters == { {} } \cup { {u} : u \in DOMAIN users }

\* register request bodies: a new or a taken user name, with or without a
\* role, a role that does not exist, a weak password
RegisterBodies ==
    { RegisterBody(n, n \o "@af-tms.nz", "Str0ng!pass", r) : n \in {"newuser", "analyst"}, r \in { {}, {"admin"}, {"auditor"} } }
        \cup { RegisterBody("newuser", "newuser@af-tms.nz", "weakpass", {}) }

\* the user names and passwords of login requests
LoginNames == {"analyst", "admin", "newuser", "nobody"}

LoginPasswords == {"analyst123", "Str0ng!pass", "wrong123", "short"}

\* users are registered and log in
NextAccounts ==
    \/ \E q \in Requesters, b \in RegisterBodies : Register(q, b)
    \/ \E n \in LoginNames, p \in LoginPasswords : Login(n, p)

SpecAccounts == InitAccounts /\ [][NextAccounts]_vars

(* -------------------------- /api/reports/sar --------------------------- *)

\* the most rows of the suspicious_activity_reports table
MaxSars == 2

\* ids of the rows of the institutions table
institutions == {1}

SarIds == DOMAIN sars

\* the row INSERT INTO suspicious_activity_reports stores: status takes the
\* column default 'draft', submitted_at is NULL; sar_number is made of
\* Date.now()
NewSar(caseId) ==
    [ sar_number |-> server_time, case_id |-> caseId, status |-> "draft", submitted_at |-> {} ]

\* the whole create-SAR handler, for a body that passes sarSchema
\* (sar_number is UNIQUE)
CreateSar(user, caseId, filingInstitutionId) ==
    /\ UNCHANGED <<core, inflight, transaction_ids, user_rows, server_time, limiterVars, clientVars>>
    /\ IF ~authorize(SupervisorPlus, user) THEN
            /\ resp' = Reply("createSar", 403)
            /\ UNCHANGED sars
       ELSE IF caseId \notin CaseIds \/ filingInstitutionId \notin institutions THEN
            /\ resp' = Reply("createSar", 404)
            /\ UNCHANGED sars
       ELSE IF \E i \in SarIds : sars[i].sar_number = server_time THEN
            /\ resp' = Reply("createSar", ErrorStatus("23505"))
            /\ UNCHANGED sars
       ELSE
            /\ sars' = Append(sars, NewSar(caseId))
            /\ resp' = Reply("createSar", 201)

\* PUT /api/reports/sar/:id/submit up to the UPDATE: authorize, SELECT the
\* SAR, the status check
SubmitSarBegin(s, user, sarId) ==
    /\ Free(s)
    /\ UNCHANGED <<core, aside>>
    /\ IF ~authorize({"admin"}, user) THEN
            resp' = Reply("submitSar", 403) /\ UNCHANGED inflight
       ELSE IF sarId \notin SarIds THEN
            resp' = ErrorReply("submitSar", 404, "SAR not found") /\ UNCHANGED inflight
       ELSE IF sars[sarId].status # "draft" THEN
            resp' = ErrorReply("submitSar", 400, "SAR has already been submitted") /\ UNCHANGED inflight
       ELSE /\ inflight' = [inflight EXCEPT ![s] = [op |-> "submitSar", pc |-> "update", sarId |-> sarId]]
            /\ UNCHANGED resp

\* PUT /api/reports/sar/:id/submit: UPDATE ... SET status = 'submitted',
\* submitted_at = CURRENT_TIMESTAMP WHERE id = $1, and the response
SubmitSarUpdate(s) ==
    /\ inflight[s].op = "submitSar" /\ inflight[s].pc = "update"
    /\ UNCHANGED <<core, transaction_ids, user_rows, server_time, limiterVars, clientVars>>
    /\ sars' = [sars EXCEPT ![inflight[s].sarId] =
                   [@ EXCEPT !.status = "submitted", !.submitted_at = {server_time}]]
    /\ resp' = Reply("submitSar", 200)
    /\ Done(s)

(* --------------- specification: SARs are submitted --------------------- *)

\* the supervisor and the admin
SarActors == {2, 4}

\* SARs are filed for a case and submitted, two requests at a time
NextSar ==
    \/ \E u \in SarActors :
          /\ Len(cases) < MaxCases
          /\ CreateCase(u, {}, <<>>)
    \/ \E u \in SarActors, c \in 1..(MaxCases + 1), i \in {1, 2} :
          /\ Len(sars) < MaxSars
          /\ CreateSar(u, c, i)
    \/ \E s \in Slots, u \in SarActors, i \in 1..(MaxSars + 1) : SubmitSarBegin(s, u, i)
    \/ \E s \in Slots : SubmitSarUpdate(s)
    \/ server_time < MaxClock /\ Tick

SpecSar == Init /\ [][NextSar]_vars

(* ------------------------ client: AuthProvider ------------------------- *)

\* the most logins of the client
MaxLogins == 3

\* the most minutes the client's clock is followed minute by minute
MaxMinutes == 3

\* LoginResponse.expiresIn as the login route sends it: '24h'
ExpiresIn == [n |-> 24, unit |-> "h"]

\* the delay computed from response.expiresIn: parseInt(expiresIn) hours
\* when the string includes 'h', seconds otherwise, in milliseconds
Milliseconds(expiresIn) ==
    IF expiresIn.unit = "h" THEN expiresIn.n * 60 * 60 * 1000 ELSE expiresIn.n * 1000

\* the state logout leaves: setUser(null), setToken(null)
LoggedOut == [user |-> {}, token |-> {}]

\* the finally block of logout, whoever calls it
ClearSession ==
    /\ auth' = LoggedOut
    /\ localStorage' = {}

\* login with credentials the server accepts; the token of the n-th login
\* is n. setToken, setUser, localStorage.setItem, setTimeout
ClientLogin(username) ==
    /\ logins' = logins + 1
    /\ auth' = [user |-> {username}, token |-> {logins'}]
    /\ localStorage' = {logins'}
    /\ timeouts' = timeouts \cup { [login |-> logins', due |-> clock + Milliseconds(ExpiresIn) - 60000] }
    /\ UNCHANGED <<core, inflight, resp, transaction_ids, user_rows, sars, server_time, limiterVars, clock>>

\* logout called by the user; no timer is cleared
ClientLogout ==
    /\ auth.token # {}
    /\ ClearSession
    /\ UNCHANGED <<core, inflight, resp, transaction_ids, user_rows, sars, server_time, limiterVars,
                   timeouts, clock, logins>>

\* the callback of a setTimeout runs: logout()
TimerFires(t) ==
    /\ t \in timeouts /\ t.due <= clock
    /\ timeouts' = timeouts \ {t}
    /\ ClearSession
    /\ UNCHANGED <<core, inflight, resp, transaction_ids, user_rows, sars, server_time, limiterVars,
                   clock, logins>>

\* the timers that are due
Due == { t \in timeouts : t.due <= clock }

\* a minute passes, no timer being due
Minute ==
    /\ Due = {}
    /\ clock' = clock + 60000
    /\ UNCHANGED <<core, inflight, resp, transaction_ids, user_rows, sars, server_time, limiterVars,
                   auth, localStorage, timeouts, logins>>

\* time passes until the next timer is due
ToNextTimer ==
    /\ Due = {} /\ timeouts # {}
    /\ clock' = (CHOOSE t \in timeouts : \A o \in timeouts : t.due <= o.due).due
    /\ UNCHANGED <<core, inflight, resp, transaction_ids, user_rows, sars, server_time, limiterVars,
                   auth, localStorage, timeouts, logins>>

(* -------------- specification: the client's sessions ------------------- *)

\* the users who log in at the client
ClientNames == {"analyst", "admin"}

\* the user logs in and out while time passes and the timers run
NextClient ==
    \/ \E n \in ClientNames :
          /\ logins < MaxLogins
          /\ ClientLogin(n)
    \/ ClientLogout
    \/ \E t \in timeouts : TimerFires(t)
    \/ clock < MaxMinutes * 60000 /\ Minute
    \/ ToNextTimer

SpecClient == Init /\ [][NextClient]_vars

(* ------------------------------- claims -------------------------------- *)

\* the (rule, transaction) pair of an alert that names a rule
HasRule(row) == row.alert_type = "rule_based" /\ row.rule_id # {}

SamePair(r1, r2) == r1.rule_id = r2.rule_id /\ r1.transaction_id = r2.transaction_id

\* the alert a step has inserted, when it inserted one
Inserted == Len(alerts') = Len(alerts) + 1

\* C1: in every reachable state at most one rule-based alert exists for any
\* (rule, transaction) pair.
C1_OneAlertPerPair ==
    \A i, j \in AlertIds :
        (HasRule(alerts[i]) /\ HasRule(alerts[j]) /\ SamePair(alerts[i], alerts[j])) => i = j

\* C2: a create-alert request for a (rule, transaction) pair that already has
\* a non-closed alert adds no alert and does not report a creation (201).
C2_EmitIdempotent ==
    [][ resp'.op = "createAlert" => \A u \in Actors, b \in AlertInputs :
          ( /\ CreateAlert(u, b.transactionId, b.alertType, b.severity, b.ruleId)
            /\ b.ruleId # {}
            /\ \E i \in AlertIds : /\ alerts[i].rule_id = b.ruleId
                                   /\ alerts[i].transaction_id = b.transactionId
                                   /\ alerts[i].status # "closed" )
          => (alerts' = alerts /\ resp'.code # 201) ]_vars

\* C3: of the create-alert requests in flight together for one (rule,
\* transaction) pair at most one inserts an alert: whenever a request inserts,
\* no alert of its pair is in the table yet.
C3_ConcurrentEmitOnce ==
    [][ \A s \in Slots :
          (inflight[s].op = "createAlert" /\ inflight'[s].op = "idle" /\ Inserted)
          => ~ \E i \in AlertIds : /\ alerts[i].rule_id = inflight[s].body.ruleId
                                   /\ alerts[i].transaction_id = inflight[s].body.transactionId ]_vars

\* C4: closed is terminal: no step changes the status of a closed alert.
C4_ClosedTerminal ==
    [][ \A i \in AlertIds : alerts[i].status = "closed" => alerts'[i].status = "closed" ]_vars

\* the transitions of the alert lifecycle
Transitions ==
    { <<"new", "investigating">>, <<"new", "escalated">>, <<"investigating", "escalated">>,
      <<"investigating", "closed">>, <<"escalated", "closed">>,
      <<"investigating", "false_positive">>, <<"escalated", "false_positive">>,
      <<"false_positive", "closed">> }

\* C5: every change of an alert's status is one of the listed transitions.
C5_ListedTransitions ==
    [][ \A i \in AlertIds :
          alerts'[i].status # alerts[i].status
          => <<alerts[i].status, alerts'[i].status>> \in Transitions ]_vars

\* the (case, alert) pairs a step has linked
Linked(caseId, alertId) ==
    /\ ~BagIn(CaseAlertRow(caseId, alertId), case_alerts)
    /\ BagIn(CaseAlertRow(caseId, alertId), case_alerts')

\* C6: a step that links an alert to a case sets its status to investigating
\* if and only if the status was new, and leaves every other status as it was.
C6_AdvanceOnlyFromNew ==
    [][ \A c \in 1..(MaxCases + 1), a \in AlertIds :
          Linked(c, a) => alerts'[a].status =
                             (IF alerts[a].status = "new" THEN "investigating" ELSE alerts[a].status) ]_vars

\* C7: persisting a link and advancing the alert's status are one atomic
\* step: no step persists a link and leaves the linked alert in status new.
C7_LinkAtomic ==
    [][ \A c \in 1..(MaxCases + 1), a \in AlertIds :
          Linked(c, a) => alerts'[a].status # "new" ]_vars

\* the ids of a create-case request that resolve: ids of alerts
Resolved(alertIds) == { alertIds[k] : k \in DOMAIN alertIds } \cap AlertIds

\* every id names an alert and no id is given twice
AllResolve(alertIds) ==
    /\ \A k \in DOMAIN alertIds : alertIds[k] \in AlertIds
    /\ \A k, l \in DOMAIN alertIds : alertIds[k] = alertIds[l] => k = l

\* the links of the case with this id
LinksOf(ca, caseId) == { r.alert_id : r \in { x \in BagToSet(ca) : x.case_id = caseId } }

LinkedOnce == \A r \in BagToSet(case_alerts) : CopiesIn(r, case_alerts) = 1

\* C9: linking a pair that is already linked fails, with a conflict (409)
\* when the user is allowed the case, and leaves the links and the alerts as
\* they were; in every reachable state each pair is linked at most once.
C9_DuplicateLinkConflict ==
    /\ []LinkedOnce
    /\ [][ resp'.op = "linkAlert" => \A u \in CaseActors, c \in CaseIds, a \in AlertIds :
             (BagIn(CaseAlertRow(c, a), case_alerts) /\ LinkAlert(u, c, a))
             => /\ case_alerts' = case_alerts
                /\ alerts' = alerts
                /\ resp'.code \in {403, 409}
                /\ (authorize(AnalystPlus, u) /\ ~CaseAccessDenied(u, cases[c]))
                      => resp'.code = 409 ]_vars

\* C9 witness: a link request has been answered with a conflict and the pair
\* it named is linked
C9_Witness ==
    /\ resp = Reply("linkAlert", 409)
    /\ \E c \in CaseIds, a \in AlertIds : BagIn(CaseAlertRow(c, a), case_alerts)

\* C10: every alert that names a rule is inserted in status new with the
\* severity of that rule.
C10_SeverityFromRule ==
    [][ Inserted =>
          LET n == alerts'[Len(alerts')] IN
          /\ n.status = "new"
          /\ \A r \in n.rule_id : n.severity = detection_rules[r].severity ]_vars

\* the ids a response lists
Listed(m) == { m[i] : i \in DOMAIN m }

\* the ids of the transactions processed within a test period
InPeriodIds(p) == { x \in DOMAIN transaction_rows : InPeriod(transaction_rows[x], p[1], p[2]) }

\* the step is a rule test by a permitted user, of rule r over period p, with
\* no limit in the body (the default of 100 is above the number of rows)
Tests(r, p) == \E u \in TestActors : authorize(SupervisorPlus, u) /\ TestRule(u, r, p[1], p[2], {})

\* C11: for every rule and every transaction of the test period, the rule
\* test reports the transaction exactly when the live evaluation of the rule
\* on that transaction matches, with the same trigger reason.
C11_TestEqualsLive ==
    [][ resp'.op = "testRule" => \A r \in RuleIds, p \in TestPeriods :
          Tests(r, p)
          => /\ resp'.code = 200
             /\ Listed(resp'.matches)
                  = { x \in InPeriodIds(p) : Evaluate(detection_rules[r], transaction_rows[x]) }
             /\ resp'.trigger_reason = TriggerReason(detection_rules[r].rule_type) ]_vars

\* C12: a rule test, whether it succeeds or fails, leaves the alerts, the
\* rules, the transactions and the case links as they were.
C12_TestReadOnly ==
    [][ resp'.op = "testRule"
          => UNCHANGED <<alerts, detection_rules, detection_rules_id_seq,
                         transaction_rows, case_alerts>> ]_vars

\* C12 witness: a rule test has reported a match and no alert exists
C12_Witness ==
    /\ resp.op = "testRule" /\ resp.code = 200
    /\ resp.matchCount >= 1
    /\ alerts = <<>>

\* C13: the test of an amount rule reports the transactions of the period
\* whose amount is within [minAmount, maxAmount] (every bound that is set
\* applies), whose currency is the rule's when set and whose type is in
\* transactionTypes when set.
C13_AmountPredicate ==
    [][ resp'.op = "testRule" => \A r \in RuleIds, p \in TestPeriods :
          (detection_rules[r].rule_type = "amount" /\ Tests(r, p))
          => /\ resp'.code = 200
             /\ Listed(resp'.matches)
                  = { x \in InPeriodIds(p) :
                        AmountMatch(detection_rules[r].conditions, transaction_rows[x]) } ]_vars

\* C14: the test of a frequency rule reports the transactions of the period
\* whose source account has at least transactionCount transactions (of the
\* rule's channels when set) within the rule's timeWindow ending at the
\* transaction, whatever the test period.
C14_FrequencyPredicate ==
    [][ resp'.op = "testRule" => \A r \in RuleIds, p \in TestPeriods :
          (detection_rules[r].rule_type = "frequency" /\ Tests(r, p))
          => /\ resp'.code = 200
             /\ Listed(resp'.matches)
                  = { x \in InPeriodIds(p) :
                        FrequencyMatch(detection_rules[r].conditions, transaction_rows[x],
                                       transaction_rows[x].processed_at) } ]_vars

\* C15: a velocity rule is evaluated: its test reports the transactions of
\* the period for which the sum of the amounts of the source account within
\* velocityWindow is at least velocityThreshold.
C15_VelocityPredicate ==
    [][ resp'.op = "testRule" => \A r \in RuleIds, p \in TestPeriods :
          (detection_rules[r].rule_type = "velocity" /\ Tests(r, p))
          => /\ resp'.code = 200
             /\ Listed(resp'.matches)
                  = { x \in InPeriodIds(p) :
                        VelocityMatch(detection_rules[r].conditions, transaction_rows[x],
                                      transaction_rows[x].processed_at) } ]_vars

\* C16: the test of a location rule reports the transactions of the period
\* whose country is in blockedCountries and whose amount is at least
\* minAmount when set.
C16_LocationPredicate ==
    [][ resp'.op = "testRule" => \A r \in RuleIds, p \in TestPeriods :
          (detection_rules[r].rule_type = "location" /\ Tests(r, p))
          => /\ resp'.code = 200
             /\ Listed(resp'.matches)
                  = { x \in InPeriodIds(p) :
                        LocationMatch(detection_rules[r].conditions, transaction_rows[x]) } ]_vars

\* C17: the test of a pattern rule reports exactly the transactions of the
\* period whose type is in transactionTypes when set, whose channel is in
\* channels when set and, when roundAmounts is true, whose amount is a
\* multiple of 1000.
C17_PatternPredicate ==
    [][ resp'.op = "testRule" =>
          /\ (resp'.code = 200 /\ resp'.rule.ruleType = "pattern")
                => LET r == resp'.rule.id
                       p == <<resp'.testPeriod.startDate, resp'.testPeriod.endDate>>
                   IN  Tests(r, p)
                       => Listed(resp'.matches)
                            = { x \in InPeriodIds(p) :
                                  PatternMatch(detection_rules[r].conditions, transaction_rows[x]) }
          /\ resp'.code # 200
                => \A r \in RuleIds, p \in TestPeriods :
                      ~(detection_rules[r].rule_type = "pattern" /\ Tests(r, p)) ]_vars

\* C17 witness: the test of a pattern rule with roundAmounts has reported a
\* transaction and left out one of the period whose amount is not round
C17_Witness ==
    /\ resp.op = "testRule" /\ resp.code = 200
    /\ resp.rule.ruleType = "pattern"
    /\ TRUE \in detection_rules[resp.rule.id].conditions.roundAmounts
    /\ resp.matchCount >= 1
    /\ \E x \in InPeriodIds(<<resp.testPeriod.startDate, resp.testPeriod.endDate>>) :
          /\ x \notin Listed(resp.matches)
          /\ transaction_rows[x].amount % Dollars(1000) # 0
          /\ transaction_rows[x].channel = "wire"

\* the condition schema of each rule type: the fields its match predicate
\* cannot do without are present
TypeSchema(rule_type, c) ==
    CASE rule_type = "amount"    -> TRUE
      [] rule_type = "frequency" -> /\ c.transactionCount # {} /\ c.timeWindow # {}
                                    /\ \A n \in c.transactionCount : n >= 1
      [] rule_type = "pattern"   -> TRUE
      [] rule_type = "location"  -> ListSet(c.blockedCountries)
      [] rule_type = "velocity"  -> c.velocityThreshold # {} /\ c.velocityWindow # {}

\* every stored active rule's conditions validate against its type's schema
ActiveRulesValid ==
    \A r \in RuleIds :
        detection_rules[r].is_active
            => TypeSchema(detection_rules[r].rule_type, detection_rules[r].conditions)

\* C18: a rule whose conditions do not satisfy the schema of its type is not
\* stored by a creation; after any creations and updates every stored active
\* rule's conditions validate against its type's schema.
C18_ConditionsValidated ==
    /\ []ActiveRulesValid
    /\ [][ \A r \in RuleIds' \ RuleIds :
             TypeSchema(detection_rules'[r].rule_type, detection_rules'[r].conditions) ]_vars

\* C19: in every reachable state no two rules have the same name.
C19_UniqueNames ==
    \A r1, r2 \in RuleIds : r1 # r2 => detection_rules[r1].name # detection_rules[r2].name

\* C20: no step removes an alert: every alert identifier of a state is an
\* identifier of the next state, with its transaction, rule, type and
\* severity as they were; a step that closes an alert changes its status and
\* nothing else of it.
C20_AlertsNeverDeleted ==
    [][ /\ AlertIds \subseteq AlertIds'
        /\ \A a \in AlertIds :
              /\ alerts'[a].transaction_id = alerts[a].transaction_id
              /\ alerts'[a].rule_id = alerts[a].rule_id
              /\ alerts'[a].alert_type = alerts[a].alert_type
              /\ alerts'[a].severity = alerts[a].severity
              /\ (alerts'[a].status = "closed" /\ alerts[a].status # "closed")
                    => alerts'[a] = [alerts[a] EXCEPT !.status = "closed"] ]_vars

\* C20 witness: an alert is closed and linked to a case, its rule is
\* deactivated, the other rule is deleted and the last rule deletion was
\* refused
C20_Witness ==
    /\ \E a \in AlertIds :
          /\ alerts[a].status = "closed"
          /\ \E c \in CaseIds : BagIn(CaseAlertRow(c, a), case_alerts)
          /\ \A r \in alerts[a].rule_id : r \in RuleIds /\ ~detection_rules[r].is_active
    /\ 2 \notin RuleIds
    /\ resp = Reply("deleteRule", 400)

\* C21: a rule test whose endDate is earlier than its startDate is never
\* answered as a success.
C21_ReversedPeriodRejected ==
    (resp.op = "testRule" /\ resp.code = 200)
        => resp.testPeriod.endDate >= resp.testPeriod.startDate

\* the processed timestamp of a transaction
ProcessedAt(x) == transaction_rows[x].processed_at

\* C22: a successful rule test returns at most limit matches (100 when the
\* body has none), each a transaction the rule's query selects within the
\* test period, ordered from the most recent to the oldest; a selected
\* transaction is left out only when limit matches are returned and none of
\* them is older than it; matchCount is the number of matches returned.
C22_LimitAndOrder ==
    [][ (resp'.op = "testRule" /\ resp'.code = 200) =>
          LET r == resp'.rule.id
              p == <<resp'.testPeriod.startDate, resp'.testPeriod.endDate>>
              m == resp'.matches
          IN  \A u \in TestActors, l \in Limits :
                TestRule(u, r, p[1], p[2], l)
                => /\ Len(m) <= Default(l, 100)
                   /\ resp'.matchCount = Len(m)
                   /\ \A i \in DOMAIN m : m[i] \in InPeriodIds(p)
                   /\ \A i \in DOMAIN m : m[i] \in Selected(detection_rules[r], p[1], p[2])
                   /\ \A i, j \in DOMAIN m : i < j => m[i] # m[j] /\ ProcessedAt(m[i]) >= ProcessedAt(m[j])
                   /\ \A x \in Selected(detection_rules[r], p[1], p[2]) \ Listed(m) :
                         /\ Len(m) = Default(l, 100)
                         /\ \A i \in DOMAIN m : ProcessedAt(m[i]) >= ProcessedAt(x) ]_vars

\* C22 witness: a test has returned one match and left out an older
\* transaction that its rule selects in the period
C22_Witness ==
    /\ resp.op = "testRule" /\ resp.code = 200
    /\ resp.matchCount = 1
    /\ \E x \in Selected(detection_rules[resp.rule.id],
                         resp.testPeriod.startDate, resp.testPeriod.endDate) :
          ProcessedAt(x) < ProcessedAt(resp.matches[1])

\* C23: under every interleaving of rule deletions with alert creations, a
\* rule that an alert references stays in the catalog, a delete request that
\* reaches its count or its DELETE while an alert references the rule is
\* refused with 400 and leaves the catalog unchanged, and every alert's rule
\* reference points to an existing rule.
C23_ReferencedRuleKept ==
    [][ /\ \A r \in RuleIds : AlertCount(r) > 0 => r \in RuleIds'
        /\ \A a \in AlertIds' : alerts'[a].rule_id \subseteq RuleIds'
        /\ \A s \in Slots :
              (/\ inflight[s].op = "deleteRule"
               /\ AlertCount(inflight[s].ruleId) > 0
               /\ DeleteRuleCount(s) \/ DeleteRuleDelete(s))
              => resp'.code = 400 /\ UNCHANGED catalog ]_vars

\* C23 witness: a delete request that counted no alert of its rule was
\* refused at its DELETE, because an alert of the rule was created meanwhile
C23_Witness ==
    /\ resp.op = "deleteRule" /\ resp.code = 400
    /\ resp.error = "Referenced resource does not exist"
    /\ \E a \in AlertIds : alerts[a].rule_id \subseteq RuleIds /\ alerts[a].rule_id # {}

\* C24: a completed bulk import reports total = successful + failed, with
\* total the length of the batch, and its inserted list names, once each,
\* exactly the transactions the import has added to the transactions table.
C24_ImportSummaryExact ==
    [][ (resp'.op = "bulkImport" /\ resp'.code = 200) =>
          /\ resp'.summary.total = resp'.summary.successful + resp'.summary.failed
          /\ resp'.summary.successful = Len(resp'.inserted)
          /\ \A i, j \in DOMAIN resp'.inserted : i # j => resp'.inserted[i] # resp'.inserted[j]
          /\ { resp'.inserted[i] : i \in DOMAIN resp'.inserted } = transaction_ids' \ transaction_ids ]_vars

\* C25: a request of an analyst never writes the status or the assignee of
\* an alert that is assigned to another user at the time of the write:
\* neither the UPDATE of the alert update handler, also when the alert was
\* reassigned after the handler's check, nor the UPDATE of the handler that
\* links the alert to a case.
C25_AnalystKeepsOut ==
    [][ \A s \in Slots :
          (/\ inflight[s].op \in {"updateAlert", "linkAlert"}
           /\ inflight[s].pc = "update"
           /\ users[inflight[s].user] = "analyst"
           /\ alerts[inflight[s].alertId].assigned_to \notin { {}, {inflight[s].user} }
           /\ UpdateAlertWrite(s) \/ LinkAlertUpdate(s))
          => /\ alerts'[inflight[s].alertId].status = alerts[inflight[s].alertId].status
             /\ alerts'[inflight[s].alertId].assigned_to = alerts[inflight[s].alertId].assigned_to ]_vars

\* the requests of a key that were passed on within the last windowMs
PassedInWindow(times, t) ==
    Cardinality({ i \in DOMAIN times : times[i] > t - windowMs /\ times[i] <= t })

\* C26: a request of a key is passed on if and only if fewer than
\* maxRequests requests of that key were passed on within the last windowMs,
\* a rejected request is answered 429, and the request leaves what is
\* recorded for the other keys as it is; so at most maxRequests requests of
\* a key are passed on within any window of windowMs.
C26_RateLimit ==
    [][ \A key \in Keys :
          RateLimiter(key) =>
            /\ IF PassedInWindow(passed[key], server_time) < maxRequests
                 THEN passed'[key] = Append(passed[key], server_time) /\ resp'.code # 429
                 ELSE passed'[key] = passed[key] /\ resp'.code = 429
            /\ \A other \in Keys \ {key} :
                  /\ passed'[other] = passed[other]
                  /\ other \in DOMAIN store' <=> other \in DOMAIN store
                  /\ other \in DOMAIN store => store'[other] = store[other]
            /\ \A k \in Keys, t \in 0..server_time :
                  PassedInWindow(passed'[k], t) <= maxRequests ]_vars

\* C26 witness: a request of a key is rejected after more than maxRequests
\* requests of that key were passed on, the earliest of them out of the
\* window by now, while the other key has requests recorded
C26_Witness ==
    /\ resp.op = "rateLimiter" /\ resp.code = 429
    /\ \E key \in Keys :
          /\ Len(passed[key]) > maxRequests
          /\ PassedInWindow(passed[key], server_time) = maxRequests
          /\ \E other \in (DOMAIN store) \ {key} : store[other] # <<>>

\* C27: a register request adds a user only when its requester is
\* authenticated as an active admin.
C27_RegistrationAdminOnly ==
    [][ \A q \in Requesters, b \in RegisterBodies :
          (Register(q, b) /\ Len(user_rows') > Len(user_rows))
          => /\ q # {}
             /\ \A u \in q : user_rows[u].role = "admin" /\ user_rows[u].is_active ]_vars

\* the users table without the rows of a user name
Without(rows, username) == SelectSeq(rows, LAMBDA row : row.username # username)

\* the users table with the rows of a user name active or deactivated
WithActive(rows, username, active) ==
    [ i \in DOMAIN rows |-> IF rows[i].username = username
                             THEN [rows[i] EXCEPT !.is_active = active] ELSE rows[i] ]

\* C29: a login that fails with 401 is answered 'Invalid credentials', and
\* the same request gets the same response in the run that differs only in
\* that the account does not exist, and in the run that differs only in
\* that the account is active or deactivated, whenever it fails there too.
C29_SameFailure ==
    [][ \A n \in LoginNames, p \in LoginPasswords :
          (Login(n, p) /\ resp'.code = 401)
          => /\ resp'.error = "Invalid credentials"
             /\ resp' = LoginReply(Without(user_rows, n), n, p)
             /\ \A active \in BOOLEAN :
                   LET other == LoginReply(WithActive(user_rows, n, active), n, p)
                   IN  other.code = 401 => resp' = other ]_vars

\* C28: the status of a SAR changes only from draft to submitted, a
\* submission writes only a SAR that is in draft, and submitted_at, once
\* set, is not written again: of two concurrent submissions of a draft SAR
\* at most one succeeds.
C28_SubmittedOnce ==
    [][ /\ \A i \in SarIds :
              /\ sars'[i].status # sars[i].status
                    => sars[i].status = "draft" /\ sars'[i].status = "submitted"
              /\ sars[i].submitted_at # {} => sars'[i].submitted_at = sars[i].submitted_at
        /\ \A s \in Slots :
              SubmitSarUpdate(s) => /\ sars[inflight[s].sarId].status = "draft"
                                    /\ sars[inflight[s].sarId].submitted_at = {} ]_vars

\* C30: the expiry timer of a login never clears the user, the token and
\* the stored token of a session that a later login has created and whose
\* own expiry timer is not due yet.
C30_TimerOfItsLogin ==
    [][ \A t \in timeouts :
          (/\ TimerFires(t)
           /\ auth.token # {} /\ auth.token # {t.login}
           /\ \E own \in timeouts : auth.token = {own.login} /\ own.due > clock)
          => auth' = auth /\ localStorage' = localStorage ]_vars

====
